---- MODULE Spec2Model ----
(***************************************************************************)
(* queuectl: a file-persisted job queue.  jobs.json holds the whole jobs   *)
(* collection; every Storage call reads or rewrites the whole file, each   *)
(* single read and each single write under the jobs lock.  Workers and     *)
(* CLI clients are separate OS processes that share nothing but the file.  *)
(*                                                                         *)
(* One step of the model is one lock region (one _read_jobs or one         *)
(* _write_jobs) together with the process-local code around it.            *)
(* created_at / updated_at hold wall-clock text that no branch of the      *)
(* program reads; the modelled record carries the other seven fields.      *)
(***************************************************************************)
EXTENDS Integers, Sequences, FiniteSets, TLC

\* ---- bounds of the model ------------------------------------------------
NumWorkers == 2
NumClients == 1
MaxJobs == 2
MaxClaims == 3

\* ---- program constants --------------------------------------------------
DefaultMaxRetries == 3
DefaultBackoffBase == 2

Workers == 1..NumWorkers
Clients == 1..NumClients

\* Python's None in a string-valued field
None == "None"

\* JobState (job.py)
PENDING == "pending"
PROCESSING == "processing"
COMPLETED == "completed"
FAILED == "failed"
DEAD == "dead"
JobState == {PENDING, PROCESSING, COMPLETED, FAILED, DEAD}

\* inputs
Commands == {"cmd"}
SuppliedIds == {"a"}
IdArgs == SuppliedIds \cup {None}
MaxRetriesArgs == {<<>>, <<1>>}
\* the ids uuid4 hands out, in the order it hands them out
UuidPool == <<"u1">>
Uuid(n) == UuidPool[n + 1]
JobIds == SuppliedIds \cup {UuidPool[n] : n \in 1..Len(UuidPool)}

\* what subprocess.run can end in: exit status 0 (with its stdout), a
\* non-zero exit status, TimeoutExpired.  Any other exception takes the
\* path of TimeoutExpired with str(e) as the message.
OkOutcomes == {"ok_out"}
Outcomes == OkOutcomes \cup {"nonzero", "timeout"}
Stdout(o) == IF o = "ok_out" THEN "out" ELSE ""
ErrorOf(o) ==
    CASE o = "nonzero" -> "Command exited with code 1"
      [] o = "timeout" -> "Job timed out"
      [] o = "sleep_error" -> "sleep length must be non-negative"
      [] OTHER -> ""

NoJob == [none |-> TRUE]

\* retry_job(id) returned value; NoRet when the last step returned nothing
Returned(id, value) == [id |-> id, value |-> value]
NoRet == [none |-> TRUE]

VARIABLES
    jobs_file,   \* jobs.json: the records in dict (insertion) order
    uuids,       \* how many uuid4 ids have been drawn
    wpc,         \* each worker's position in Worker.start
    wjob,        \* each worker's in-memory Job (`job`)
    wres,        \* how the worker's subprocess.run ended (None: not yet)
    wclaimed,    \* attempts of `job` as read when the worker took it
    wsnap,       \* `jobs` inside save_job, between its read and its write
    cpc,         \* each client's position in the facade call it is in
    cjob,        \* the client's in-memory Job
    csnap,       \* `jobs` inside the client's save_job
    enqueued,    \* ids for which enqueue has returned
    claims,      \* how many times a worker has taken a job
    lastRetry,   \* the id retry_job last returned True for, while no other
                 \* operation on that job was under way then or has started
                 \* since; None otherwise
    ret,         \* what retry_job returned, when the last step was its return
    cut,         \* whether the run stops taking jobs after MaxClaims
    workers_file,\* workers.json: the list of {'id', 'pid'} entries
    running,     \* each worker's self.running
    tested,      \* the worker is past the `while self.running` test of the
                 \* iteration it is in
    rsnap,       \* `workers` inside register_worker / unregister_worker
    sigbusy,     \* a shutdown signal reached the worker while it held a job
    fails,       \* per job id: executions that ended in failure since the
                 \* job was enqueued
    lock,        \* per collection: the process holding its flock (0: free)
    disk,        \* per collection: the bytes of its file
    lpc,         \* each process's position in a _read_* / _write_* call
    lop,         \* the collection and the data of the call it is in
    lgot,        \* what the process's last json.load returned
    arg,         \* the arguments of the enqueue call under way or last made
    bk,          \* a job going through _handle_job_failure with a base
    backoff_base \* config.json: the value under 'backoff_base'

vars == <<jobs_file, uuids, wpc, wjob, wres, wclaimed, wsnap, cpc, cjob, csnap,
          enqueued, claims, lastRetry, ret, cut, workers_file, running, tested,
          rsnap, sigbusy, fails, lock, disk, lpc, lop, lgot, arg, bk,
          backoff_base>>

\* ---- job.py -------------------------------------------------------------

\* what `job_id or ...` takes for no id: None and the empty string
Falsy(job_id) == job_id = None \/ job_id = ""

\* Job.__init__ with `job_id or str(uuid.uuid4())` cut down to job_id
JobNew_keep_id(command, job_id, state, attempts, max_retries, last_error, output, fresh) ==
    [id |-> job_id,
     command |-> command,
     state |-> state,
     attempts |-> attempts,
     max_retries |-> max_retries,
     last_error |-> last_error,
     output |-> output]

\* Job.__init__
JobNew(command, job_id, state, attempts, max_retries, last_error, output, fresh) ==
    [id |-> IF ~Falsy(job_id) THEN job_id ELSE fresh,
     command |-> command,
     state |-> state,
     attempts |-> attempts,
     max_retries |-> max_retries,
     last_error |-> last_error,
     output |-> output]

\* Job.to_dict
to_dict(job) ==
    [id |-> job.id, command |-> job.command, state |-> job.state,
     attempts |-> job.attempts, max_retries |-> job.max_retries,
     last_error |-> job.last_error, output |-> job.output]

\* Job.from_dict
from_dict(data) ==
    JobNew(data.command, data.id, data.state, data.attempts, data.max_retries,
           data.last_error, data.output, "fresh")

\* Job.update_state
update_state(job, state, error, output) ==
    [job EXCEPT !.state = state,
                !.last_error = IF error # None /\ error # "" THEN error ELSE @,
                !.output = IF output # None /\ output # "" THEN output ELSE @]

\* increment_attempts that counts a failure twice
increment_attempts_twice(job) == [job EXCEPT !.attempts = @ + 2]

\* Job.increment_attempts
increment_attempts(job) == [job EXCEPT !.attempts = @ + 1]

\* should_retry with the comparison made inclusive
should_retry_inclusive(job) == job.attempts <= job.max_retries

\* Job.should_retry
should_retry(job) == job.attempts < job.max_retries

\* ---- storage.py ---------------------------------------------------------

HasId(jobs, id) == \E k \in 1..Len(jobs) : jobs[k].id = id
IndexOf(jobs, id) == CHOOSE k \in 1..Len(jobs) : jobs[k].id = id

\* jobs[job.id] = job.to_dict(): an existing key keeps its place, a new key
\* goes last
DictSet(jobs, job) ==
    IF HasId(jobs, job.id)
    THEN [jobs EXCEPT ![IndexOf(jobs, job.id)] = to_dict(job)]
    ELSE Append(jobs, to_dict(job))

\* Storage.get_job on the collection a _read_jobs returned
get_job(jobs, id) ==
    IF HasId(jobs, id) THEN from_dict(jobs[IndexOf(jobs, id)]) ELSE NoJob

\* Storage.get_jobs_by_state on the collection a _read_jobs returned
get_jobs_by_state(jobs, state) ==
    LET InState(d) == d.state = state
        sel == SelectSeq(jobs, InState)
    IN [n \in 1..Len(sel) |-> from_dict(sel[n])]

\* get_job_counts that leaves the dead jobs out
RECURSIVE get_job_counts_live(_, _)
get_job_counts_live(jobs, n) ==
    IF n = 0
    THEN [st \in JobState |-> 0]
    ELSE LET counts == get_job_counts_live(jobs, n - 1)
         IN IF jobs[n].state = DEAD
            THEN counts
            ELSE [counts EXCEPT ![jobs[n].state] = @ + 1]

\* Storage.get_job_counts on the first n records of the collection _read_jobs
\* returned: counts starts at 0 for every JobState, and every record adds 1
\* under its state
RECURSIVE get_job_counts(_, _)
get_job_counts(jobs, n) ==
    IF n = 0
    THEN [st \in JobState |-> 0]
    ELSE LET counts == get_job_counts(jobs, n - 1)
         IN [counts EXCEPT ![jobs[n].state] = @ + 1]

\* ---- the parts of the state one specification leaves at rest ------------

\* the processes of the lock-level view of storage.py, its two collections
\* and what a file can hold: the collection __init__ created it with, the
\* collections written since, or the empty file open(..., 'w') leaves until
\* json.dump and the close of the file have run
NumProcs == 2
Procs == 1..NumProcs
Collections == {"jobs", "workers"}
Created == "created"
Truncated == ""
Written == {"v1", "v2"}
NoOp == [none |-> TRUE]

\* the entry register_worker appends for worker w
WorkerEntry(w) == [id |-> w, pid |-> w]

\* the value of a variable that the specification at hand does not follow
Off == "off"

\* workers.json, the running flags and the signals are not followed: every
\* worker is in its loop and stays there
LifeOff ==
    /\ workers_file = Off
    /\ running = Off
    /\ tested = Off
    /\ rsnap = Off
    /\ sigbusy = Off

\* the lock-level view is not followed
LocksOff ==
    /\ lock = Off
    /\ disk = Off
    /\ lpc = Off
    /\ lop = Off
    /\ lgot = Off

\* no process is inside a storage call of the lock-level view
LocksIdle ==
    /\ lock = [f \in Collections |-> 0]
    /\ disk = [f \in Collections |-> Created]
    /\ lpc = [p \in Procs |-> "idle"]
    /\ lop = [p \in Procs |-> NoOp]
    /\ lgot = [p \in Procs |-> Created]

\* no client, no worker is in a call on jobs.json
JobsIdle ==
    /\ wjob = [w \in Workers |-> NoJob]
    /\ wres = [w \in Workers |-> None]
    /\ wclaimed = [w \in Workers |-> 0]
    /\ wsnap = [w \in Workers |-> <<>>]
    /\ cpc = [c \in Clients |-> "idle"]
    /\ cjob = [c \in Clients |-> NoJob]
    /\ csnap = [c \in Clients |-> <<>>]
    /\ claims = 0
    /\ lastRetry = None
    /\ ret = NoRet

Init ==
    /\ cut = TRUE
    /\ backoff_base = DefaultBackoffBase
    /\ LifeOff
    /\ LocksOff
    /\ fails = Off
    /\ arg = Off
    /\ bk = Off
    /\ jobs_file = <<>>
    /\ uuids = 0
    /\ wpc = [w \in Workers |-> "loop"]
    /\ wjob = [w \in Workers |-> NoJob]
    /\ wres = [w \in Workers |-> None]
    /\ wclaimed = [w \in Workers |-> 0]
    /\ wsnap = [w \in Workers |-> <<>>]
    /\ cpc = [c \in Clients |-> "idle"]
    /\ cjob = [c \in Clients |-> NoJob]
    /\ csnap = [c \in Clients |-> <<>>]
    /\ enqueued = {}
    /\ claims = 0
    /\ lastRetry = None
    /\ ret = NoRet

wvars == <<wpc, wjob, wres, wclaimed, wsnap>>
cvars == <<cpc, cjob, csnap>>
hvars == <<enqueued, claims, lastRetry>>
lifevars == <<workers_file, running, tested, rsnap, sigbusy>>
lockvars == <<lock, disk, lpc, lop, lgot>>
jobvars == <<jobs_file, uuids, wvars, cvars, hvars, ret>>
\* what the actions on jobs.json do not touch
xvars == <<cut, backoff_base, lifevars, fails, lockvars, arg, bk>>

\* ---- queue_manager.py ---------------------------------------------------

\* QueueManager.enqueue up to and with the _read_jobs of its save_job
EnqueueCall(c, command, job_id, mr) ==
    /\ cpc[c] = "idle"
    /\ Cardinality(enqueued) + Cardinality({d \in Clients : cpc[d] = "enq_write"}) < MaxJobs
    /\ Falsy(job_id) => uuids < Len(UuidPool)
    /\ LET max_retries == IF mr = <<>> THEN DefaultMaxRetries ELSE mr[1]
           fresh == IF Falsy(job_id) THEN Uuid(uuids) ELSE None
           job == JobNew(command, job_id, PENDING, 0, max_retries, None, None, fresh)
       IN /\ cjob' = [cjob EXCEPT ![c] = job]
          /\ uuids' = IF Falsy(job_id) THEN uuids + 1 ELSE uuids
    /\ csnap' = [csnap EXCEPT ![c] = jobs_file]
    /\ cpc' = [cpc EXCEPT ![c] = "enq_write"]
    /\ lastRetry' = IF cjob'[c].id = lastRetry THEN None ELSE lastRetry
    /\ ret' = NoRet
    /\ UNCHANGED <<jobs_file, wvars, enqueued, claims>>

\* the _write_jobs of enqueue's save_job, and the return of the job
EnqueueWrite(c) ==
    /\ cpc[c] = "enq_write"
    /\ jobs_file' = DictSet(csnap[c], cjob[c])
    /\ enqueued' = enqueued \cup {cjob[c].id}
    /\ cpc' = [cpc EXCEPT ![c] = "idle"]
    /\ cjob' = [cjob EXCEPT ![c] = NoJob]
    /\ csnap' = [csnap EXCEPT ![c] = <<>>]
    /\ ret' = NoRet
    /\ UNCHANGED <<uuids, wvars, claims, lastRetry>>

\* retry_allowed without the test of the state
retry_allowed_any_state(job) == job # NoJob

\* the two tests of retry_job on what get_job returned: TRUE when the call
\* goes on to reset and save the job, FALSE when it returns False
retry_allowed(job) == job # NoJob /\ job.state = DEAD

\* the job retry_job saves: attempts = 0, update_state(PENDING)
retry_reset(job) == update_state([job EXCEPT !.attempts = 0], PENDING, None, None)

\* QueueManager.retry_job: get_job, then return False, or reset the job and
\* go on to save_job (whose _read_jobs is another lock region)
RetryGet(c, job_id) ==
    /\ cpc[c] = "idle"
    /\ LET job == get_job(jobs_file, job_id)
       IN IF retry_allowed(job)
          THEN /\ cjob' = [cjob EXCEPT ![c] = retry_reset(job)]
               /\ cpc' = [cpc EXCEPT ![c] = "retry_read"]
               /\ ret' = NoRet
          ELSE /\ ret' = Returned(job_id, FALSE)
               /\ UNCHANGED <<cpc, cjob>>
    /\ lastRetry' = IF job_id = lastRetry THEN None ELSE lastRetry
    /\ UNCHANGED <<jobs_file, uuids, csnap, wvars, enqueued, claims>>

\* some process other than client c is in the middle of an operation on job id
InFlight(c, id) ==
    \/ \E w \in Workers : wjob[w] # NoJob /\ wjob[w].id = id
    \/ \E d \in Clients \ {c} : cjob[d] # NoJob /\ cjob[d].id = id

\* the _read_jobs of retry_job's save_job
RetryRead(c) ==
    /\ cpc[c] = "retry_read"
    /\ csnap' = [csnap EXCEPT ![c] = jobs_file]
    /\ cpc' = [cpc EXCEPT ![c] = "retry_write"]
    /\ ret' = NoRet
    /\ UNCHANGED <<jobs_file, uuids, cjob, wvars, hvars>>

\* the _write_jobs of retry_job's save_job, and return True
RetryWrite(c) ==
    /\ cpc[c] = "retry_write"
    /\ jobs_file' = DictSet(csnap[c], cjob[c])
    /\ cpc' = [cpc EXCEPT ![c] = "idle"]
    /\ cjob' = [cjob EXCEPT ![c] = NoJob]
    /\ csnap' = [csnap EXCEPT ![c] = <<>>]
    /\ lastRetry' = IF InFlight(c, cjob[c].id) THEN None ELSE cjob[c].id
    /\ ret' = Returned(cjob[c].id, TRUE)
    /\ UNCHANGED <<uuids, wvars, enqueued, claims>>

\* ---- worker.py ----------------------------------------------------------

\* bookkeeping of a worker taking job id: within the budget of MaxClaims
Take(id) ==
    /\ cut => claims < MaxClaims
    /\ claims' = IF cut THEN claims + 1 ELSE claims
    /\ lastRetry' = IF id = lastRetry THEN None ELSE lastRetry

\* Worker._get_next_job: get_jobs_by_state(PENDING) and, when a pending job
\* exists, job.update_state(PROCESSING) on the first one; save_job comes next
GetPending(w) ==
    /\ wpc[w] = "loop"
    /\ LET pending_jobs == get_jobs_by_state(jobs_file, PENDING)
       IN IF Len(pending_jobs) = 0
          THEN /\ wpc' = [wpc EXCEPT ![w] = "scan_failed"]
               /\ UNCHANGED <<wjob, wclaimed, claims, lastRetry>>
          ELSE /\ wjob' = [wjob EXCEPT ![w] =
                              update_state(pending_jobs[1], PROCESSING, None, None)]
               /\ wclaimed' = [wclaimed EXCEPT ![w] = pending_jobs[1].attempts]
               /\ wpc' = [wpc EXCEPT ![w] = "claim_read"]
               /\ Take(pending_jobs[1].id)
    /\ ret' = NoRet
    /\ UNCHANGED <<jobs_file, uuids, wres, wsnap, cvars, enqueued>>

\* the first failed job with should_retry(), if any
FirstRetryable(failed_jobs) ==
    LET ks == {k \in 1..Len(failed_jobs) : should_retry(failed_jobs[k])}
    IN IF ks = {} THEN NoJob
       ELSE failed_jobs[CHOOSE k \in ks : \A m \in ks : k <= m]

\* Worker._get_next_job with no pending job: get_jobs_by_state(FAILED); the
\* first retryable failed job is returned as it is (not saved as processing);
\* with none, start() sleeps the poll interval and loops
ScanFailed(w) ==
    /\ wpc[w] = "scan_failed"
    /\ LET job == FirstRetryable(get_jobs_by_state(jobs_file, FAILED))
       IN IF job = NoJob
          THEN /\ wpc' = [wpc EXCEPT ![w] = "loop"]
               /\ UNCHANGED <<wjob, wclaimed, claims, lastRetry>>
          ELSE /\ wjob' = [wjob EXCEPT ![w] = job]
               /\ wclaimed' = [wclaimed EXCEPT ![w] = job.attempts]
               /\ wpc' = [wpc EXCEPT ![w] = "run"]
               /\ Take(job.id)
    /\ ret' = NoRet
    /\ UNCHANGED <<jobs_file, uuids, wres, wsnap, cvars, enqueued>>

\* save_job(job) of the claim: _read_jobs
ClaimRead(w) ==
    /\ wpc[w] = "claim_read"
    /\ wsnap' = [wsnap EXCEPT ![w] = jobs_file]
    /\ wpc' = [wpc EXCEPT ![w] = "claim_write"]
    /\ ret' = NoRet
    /\ UNCHANGED <<jobs_file, uuids, wjob, wres, wclaimed, cvars, hvars>>

\* save_job(job) of the claim: jobs[job.id] = ...; _write_jobs; then
\* _process_job starts the command
ClaimWrite(w) ==
    /\ wpc[w] = "claim_write"
    /\ jobs_file' = DictSet(wsnap[w], wjob[w])
    /\ wsnap' = [wsnap EXCEPT ![w] = <<>>]
    /\ wpc' = [wpc EXCEPT ![w] = "run"]
    /\ ret' = NoRet
    /\ UNCHANGED <<uuids, wjob, wres, wclaimed, cvars, hvars>>

\* Worker._handle_job_failure up to time.sleep(backoff), or to its end
\* when the job is not retried
handle_job_failure(job, error) ==
    LET j == increment_attempts(job)
    IN IF should_retry(j)
       THEN update_state(j, FAILED, error, None)
       ELSE update_state(j, DEAD, error, None)

\* process_result counting every execution, successful or not, as an attempt
process_result_counting(job, o) ==
    IF o \in OkOutcomes
    THEN update_state(increment_attempts(job), COMPLETED, None, Stdout(o))
    ELSE handle_job_failure(job, ErrorOf(o))

\* what _process_job makes of the job when subprocess.run ends in o
process_result(job, o) ==
    IF o \in OkOutcomes
    THEN update_state(job, COMPLETED, None, Stdout(o))
    ELSE handle_job_failure(job, ErrorOf(o))

\* Worker._process_job: subprocess.run ends in o; the job is classified;
\* a retried job sleeps in _handle_job_failure, any other goes on to the
\* finally clause, whose save_job does its _read_jobs
Execute(w, o) ==
    /\ wpc[w] = "run"
    /\ wjob' = [wjob EXCEPT ![w] = process_result(@, o)]
    /\ wres' = [wres EXCEPT ![w] = o]
    /\ IF wjob'[w].state = FAILED
       THEN /\ wpc' = [wpc EXCEPT ![w] = "backoff"]
            /\ UNCHANGED wsnap
       ELSE /\ wpc' = [wpc EXCEPT ![w] = "save_write"]
            /\ wsnap' = [wsnap EXCEPT ![w] = jobs_file]
    /\ ret' = NoRet
    /\ UNCHANGED <<jobs_file, uuids, wclaimed, cvars, hvars>>

\* the end of time.sleep(backoff): job.update_state(PENDING, error=error),
\* then the finally clause, whose save_job does its _read_jobs
Backoff(w) ==
    /\ wpc[w] = "backoff"
    /\ wjob' = [wjob EXCEPT ![w] = update_state(@, PENDING, ErrorOf(wres[w]), None)]
    /\ wsnap' = [wsnap EXCEPT ![w] = jobs_file]
    /\ wpc' = [wpc EXCEPT ![w] = "save_write"]
    /\ ret' = NoRet
    /\ UNCHANGED <<jobs_file, uuids, wres, wclaimed, cvars, hvars>>

\* finally: save_job(job): _write_jobs; current_job = None; back to the loop
SaveWrite(w) ==
    /\ wpc[w] = "save_write"
    /\ jobs_file' = DictSet(wsnap[w], wjob[w])
    /\ wsnap' = [wsnap EXCEPT ![w] = <<>>]
    /\ wjob' = [wjob EXCEPT ![w] = NoJob]
    /\ wres' = [wres EXCEPT ![w] = None]
    /\ wclaimed' = [wclaimed EXCEPT ![w] = 0]
    /\ wpc' = [wpc EXCEPT ![w] = "loop"]
    /\ ret' = NoRet
    /\ UNCHANGED <<uuids, cvars, hvars>>

Next ==
    \/ \E c \in Clients, command \in Commands, job_id \in IdArgs, mr \in MaxRetriesArgs :
          EnqueueCall(c, command, job_id, mr) /\ UNCHANGED xvars
    \/ \E c \in Clients : EnqueueWrite(c) /\ UNCHANGED xvars
    \/ \E c \in Clients, job_id \in JobIds : RetryGet(c, job_id) /\ UNCHANGED xvars
    \/ \E c \in Clients : RetryRead(c) /\ UNCHANGED xvars
    \/ \E c \in Clients : RetryWrite(c) /\ UNCHANGED xvars
    \/ \E w \in Workers : GetPending(w) /\ UNCHANGED xvars
    \/ \E w \in Workers : ScanFailed(w) /\ UNCHANGED xvars
    \/ \E w \in Workers : ClaimRead(w) /\ UNCHANGED xvars
    \/ \E w \in Workers : ClaimWrite(w) /\ UNCHANGED xvars
    \/ \E w \in Workers, o \in Outcomes : Execute(w, o) /\ UNCHANGED xvars
    \/ \E w \in Workers : Backoff(w) /\ UNCHANGED xvars
    \/ \E w \in Workers : SaveWrite(w) /\ UNCHANGED xvars

Spec == Init /\ [][Next]_vars

\* ---- worker.py: the life of a worker process ----------------------------

\* jobs.json as enqueue calls made before the workers start have left it
SeededStores ==
    LET a == to_dict(JobNew("cmd", "a", PENDING, 0, 1, None, None, None))
        u == to_dict(JobNew("cmd", None, PENDING, 0, DefaultMaxRetries, None, None,
                            Uuid(0)))
    IN {<<a>>, <<a, u>>}

IdsOf(jobs) == {jobs[k].id : k \in 1..Len(jobs)}

\* Worker.__init__ has run in every worker process (running is False, the
\* handlers of SIGTERM and SIGINT are installed), start() has not
LifeInit ==
    /\ cut = TRUE
    /\ backoff_base = DefaultBackoffBase
    /\ jobs_file \in SeededStores
    /\ uuids = Len(jobs_file) - 1
    /\ enqueued = IdsOf(jobs_file)
    /\ JobsIdle
    /\ wpc = [w \in Workers |-> "new"]
    /\ workers_file = <<>>
    /\ running = [w \in Workers |-> FALSE]
    /\ tested = [w \in Workers |-> FALSE]
    /\ rsnap = [w \in Workers |-> <<>>]
    /\ sigbusy = [w \in Workers |-> FALSE]
    /\ LocksOff
    /\ fails = Off
    /\ arg = Off
    /\ bk = Off

\* what the steps of a worker's life leave alone besides jobs.json
restvars == <<cut, backoff_base, fails, lockvars, arg, bk>>
jobstate == <<jobs_file, uuids, wjob, wres, wclaimed, wsnap, cvars, hvars, ret>>

\* Worker.start: self.running = True, then register_worker up to and with
\* its _read_workers
StartRegister(w) ==
    /\ wpc[w] = "new"
    /\ running' = [running EXCEPT ![w] = TRUE]
    /\ rsnap' = [rsnap EXCEPT ![w] = workers_file]
    /\ wpc' = [wpc EXCEPT ![w] = "reg_write"]
    /\ UNCHANGED <<workers_file, tested, sigbusy, jobstate, restvars>>

\* the _write_workers of register_worker; the loop comes next
RegisterWrite(w) ==
    /\ wpc[w] = "reg_write"
    /\ workers_file' = Append(rsnap[w], WorkerEntry(w))
    /\ rsnap' = [rsnap EXCEPT ![w] = <<>>]
    /\ wpc' = [wpc EXCEPT ![w] = "loop"]
    /\ UNCHANGED <<running, tested, sigbusy, jobstate, restvars>>

\* `while self.running:`; when it fails the finally clause takes over with
\* unregister_worker
LoopTest(w) ==
    /\ wpc[w] = "loop"
    /\ ~tested[w]
    /\ IF running[w]
       THEN /\ tested' = [tested EXCEPT ![w] = TRUE]
            /\ UNCHANGED wpc
       ELSE /\ wpc' = [wpc EXCEPT ![w] = "unreg_read"]
            /\ UNCHANGED tested
    /\ UNCHANGED <<workers_file, running, rsnap, sigbusy, jobstate, restvars>>

\* the _read_workers of unregister_worker
UnregisterRead(w) ==
    /\ wpc[w] = "unreg_read"
    /\ rsnap' = [rsnap EXCEPT ![w] = workers_file]
    /\ wpc' = [wpc EXCEPT ![w] = "unreg_write"]
    /\ UNCHANGED <<workers_file, running, tested, sigbusy, jobstate, restvars>>

\* unregister_worker's filter and _write_workers; start() returns
UnregisterWrite(w) ==
    /\ wpc[w] = "unreg_write"
    /\ LET Others(e) == e.id # w
       IN workers_file' = SelectSeq(rsnap[w], Others)
    /\ rsnap' = [rsnap EXCEPT ![w] = <<>>]
    /\ wpc' = [wpc EXCEPT ![w] = "stopped"]
    /\ UNCHANGED <<running, tested, sigbusy, jobstate, restvars>>

\* a handler that raises: the worker leaves its loop for the finally clause
resume_by_raising(pc) ==
    IF pc \in {"new", "reg_write", "unreg_read", "unreg_write", "stopped"}
    THEN pc ELSE "unreg_read"

\* where the worker goes on when _handle_shutdown has returned: where the
\* signal interrupted it
resume_after_signal(pc) == pc

\* SIGTERM or SIGINT reaches the worker process: _handle_shutdown
HandleShutdown(w) ==
    /\ wpc[w] # "stopped"
    /\ running' = [running EXCEPT ![w] = FALSE]
    /\ sigbusy' = [sigbusy EXCEPT ![w] = @ \/ wjob[w] # NoJob]
    /\ wpc' = [wpc EXCEPT ![w] = resume_after_signal(@)]
    /\ UNCHANGED <<workers_file, tested, rsnap, jobs_file, uuids, wjob, wres,
                   wclaimed, wsnap, cvars, hvars, ret, restvars>>

\* the steps of the loop body: _get_next_job is entered past the test of
\* running, and every way out of the body leads back to the test
InBody(w) ==
    /\ wpc[w] = "loop" => tested[w]
    /\ tested' = [tested EXCEPT ![w] = wpc'[w] = "scan_failed"]
    /\ UNCHANGED <<workers_file, running, rsnap, sigbusy, restvars>>

LifeNext ==
    \/ \E w \in Workers : StartRegister(w)
    \/ \E w \in Workers : RegisterWrite(w)
    \/ \E w \in Workers : LoopTest(w)
    \/ \E w \in Workers : GetPending(w) /\ InBody(w)
    \/ \E w \in Workers : ScanFailed(w) /\ InBody(w)
    \/ \E w \in Workers : ClaimRead(w) /\ InBody(w)
    \/ \E w \in Workers : ClaimWrite(w) /\ InBody(w)
    \/ \E w \in Workers, o \in Outcomes : Execute(w, o) /\ InBody(w)
    \/ \E w \in Workers : Backoff(w) /\ InBody(w)
    \/ \E w \in Workers : SaveWrite(w) /\ InBody(w)
    \/ \E w \in Workers : UnregisterRead(w)
    \/ \E w \in Workers : UnregisterWrite(w)
    \/ \E w \in Workers : HandleShutdown(w)

SpecLife == LifeInit /\ [][LifeNext]_vars

\* ---- queue_manager.py: enqueue over all its arguments ---------------------

\* the ids and the max_retries a submission can carry: no id, the empty
\* id, an id; no max_retries, 0, 1, 2
IdArgsAll == IdArgs \cup {""}
MaxRetriesArgsAll == MaxRetriesArgs \cup {<<0>>, <<2>>}
NoArg == [none |-> TRUE]

EnqueueInit ==
    /\ cut = TRUE
    /\ backoff_base = DefaultBackoffBase
    /\ jobs_file \in {<<>>} \cup SeededStores
    /\ uuids = IF Len(jobs_file) = 2 THEN 1 ELSE 0
    /\ enqueued = IdsOf(jobs_file)
    /\ JobsIdle
    /\ wpc = [w \in Workers |-> "loop"]
    /\ LifeOff
    /\ LocksOff
    /\ fails = Off
    /\ arg = [c \in Clients |-> NoArg]
    /\ bk = Off

enqframe == <<cut, backoff_base, lifevars, fails, lockvars, bk>>

EnqueueNext ==
    \/ \E c \in Clients, command \in Commands, job_id \in IdArgsAll,
          mr \in MaxRetriesArgsAll :
          /\ EnqueueCall(c, command, job_id, mr)
          /\ arg' = [arg EXCEPT ![c] = [command |-> command, id |-> job_id, mr |-> mr]]
          /\ UNCHANGED enqframe
    \/ \E c \in Clients : EnqueueWrite(c) /\ UNCHANGED <<arg, enqframe>>

SpecEnqueue == EnqueueInit /\ [][EnqueueNext]_vars

\* ---- worker.py: the backoff of one job ------------------------------------

\* the ranges of backoff_base and of max_retries
MaxBase == 4
MaxRetriesRange == 4
Bases == 1..MaxBase

\* a backoff that grows by base with every attempt
get_backoff_delay_linear(job, base) == base * job.attempts

\* Job.get_backoff_delay
get_backoff_delay(job, base) == base ^ job.attempts

\* the delay of _handle_job_failure: after increment_attempts, and only
\* when should_retry holds; 0 stands for no sleep
failure_backoff(job, base) ==
    LET j == increment_attempts(job)
    IN IF should_retry(j) THEN get_backoff_delay(j, base) ELSE 0

\* a worker holds a job it took with attempts 0, under some backoff_base
BackoffInit ==
    /\ cut = TRUE
    /\ backoff_base = DefaultBackoffBase
    /\ jobs_file = <<>>
    /\ uuids = 0
    /\ enqueued = {}
    /\ JobsIdle
    /\ wpc = [w \in Workers |-> "loop"]
    /\ LifeOff
    /\ LocksOff
    /\ fails = Off
    /\ arg = Off
    /\ \E base \in Bases, max_retries \in 1..MaxRetriesRange :
          bk = [job |-> JobNew("cmd", "a", PROCESSING, 0, max_retries, None, None, None),
                base |-> base,
                delay |-> 0]

bkframe == <<jobvars, cut, backoff_base, lifevars, fails, lockvars, arg>>

\* _process_job ends in a failure: _handle_job_failure up to the sleep
FailJob(o) ==
    /\ bk.job.state = PROCESSING
    /\ bk' = [bk EXCEPT !.job = handle_job_failure(bk.job, ErrorOf(o)),
                        !.delay = failure_backoff(bk.job, bk.base)]
    /\ UNCHANGED bkframe

\* time.sleep(backoff) returns: the job is pending again
SleepEnds ==
    /\ bk.job.state = FAILED
    /\ bk' = [bk EXCEPT !.job = update_state(@, PENDING, bk.job.last_error, None)]
    /\ UNCHANGED bkframe

\* _get_next_job takes the job again
TakeAgain ==
    /\ bk.job.state = PENDING
    /\ bk' = [bk EXCEPT !.job = update_state(@, PROCESSING, None, None)]
    /\ UNCHANGED bkframe

BackoffNext ==
    \/ \E o \in Outcomes \ OkOutcomes : FailJob(o)
    \/ SleepEnds
    \/ TakeAgain

SpecBackoff == BackoffInit /\ [][BackoffNext]_vars

\* ---- worker.py: the executions of a job counted ---------------------------

\* the workers are in their loops over a store that enqueue calls have left
CountInit ==
    /\ cut = TRUE
    /\ backoff_base = DefaultBackoffBase
    /\ jobs_file \in SeededStores
    /\ uuids = Len(jobs_file) - 1
    /\ enqueued = IdsOf(jobs_file)
    /\ JobsIdle
    /\ wpc = [w \in Workers |-> "loop"]
    /\ LifeOff
    /\ LocksOff
    /\ fails = [id \in JobIds |-> 0]
    /\ arg = Off
    /\ bk = Off

countframe == <<cut, backoff_base, lifevars, lockvars, arg, bk>>

\* subprocess.run has ended in a failure: one more failed execution of the
\* job the worker holds
CountFailure(w, o) ==
    fails' = IF o \in OkOutcomes THEN fails ELSE [fails EXCEPT ![wjob[w].id] = @ + 1]

CountNext ==
    \/ \E w \in Workers : GetPending(w) /\ UNCHANGED <<fails, countframe>>
    \/ \E w \in Workers : ScanFailed(w) /\ UNCHANGED <<fails, countframe>>
    \/ \E w \in Workers : ClaimRead(w) /\ UNCHANGED <<fails, countframe>>
    \/ \E w \in Workers : ClaimWrite(w) /\ UNCHANGED <<fails, countframe>>
    \/ \E w \in Workers, o \in Outcomes :
          Execute(w, o) /\ CountFailure(w, o) /\ UNCHANGED countframe
    \/ \E w \in Workers : Backoff(w) /\ UNCHANGED <<fails, countframe>>
    \/ \E w \in Workers : SaveWrite(w) /\ UNCHANGED <<fails, countframe>>

SpecCount == CountInit /\ [][CountNext]_vars

\* ---- worker.py: workers that keep running, scheduled fairly ----------------

\* as CountInit, with no end to the taking of jobs
FairInit ==
    /\ cut = FALSE
    /\ backoff_base = DefaultBackoffBase
    /\ jobs_file \in SeededStores
    /\ uuids = Len(jobs_file) - 1
    /\ enqueued = IdsOf(jobs_file)
    /\ JobsIdle
    /\ wpc = [w \in Workers |-> "loop"]
    /\ LifeOff
    /\ LocksOff
    /\ fails = Off
    /\ arg = Off
    /\ bk = Off

\* the next step of worker w: each step of the loop ends (the lock is
\* handed over, the command terminates, the sleep returns)
WorkerNext(w) ==
    /\ \/ GetPending(w)
       \/ ScanFailed(w)
       \/ ClaimRead(w)
       \/ ClaimWrite(w)
       \/ \E o \in Outcomes : Execute(w, o)
       \/ Backoff(w)
       \/ SaveWrite(w)
    /\ UNCHANGED xvars

FairNext ==
    \/ \E w \in Workers : GetPending(w) /\ UNCHANGED xvars
    \/ \E w \in Workers : ScanFailed(w) /\ UNCHANGED xvars
    \/ \E w \in Workers : ClaimRead(w) /\ UNCHANGED xvars
    \/ \E w \in Workers : ClaimWrite(w) /\ UNCHANGED xvars
    \/ \E w \in Workers, o \in Outcomes : Execute(w, o) /\ UNCHANGED xvars
    \/ \E w \in Workers : Backoff(w) /\ UNCHANGED xvars
    \/ \E w \in Workers : SaveWrite(w) /\ UNCHANGED xvars

\* every worker keeps running and is scheduled again and again
SpecFair ==
    /\ FairInit
    /\ [][FairNext]_vars
    /\ \A w \in Workers : WF_vars(WorkerNext(w))

\* ---- worker.py: _process_job under the configured backoff_base -----------

\* the values `config set backoff_base` stores that int() accepts: the
\* default and a negative one
BaseArgs == {DefaultBackoffBase, -1}

\* time.sleep(backoff) raises ValueError: the length is negative
sleep_raises(backoff) == backoff < 0

\* _handle_job_failure: the job as it leaves it or, when time.sleep raises,
\* as it is then (failed, the attempts incremented)
handle_failure_under(job, error, base) ==
    LET j == increment_attempts(job)
    IN IF should_retry(j)
       THEN [job |-> update_state(j, FAILED, error, None),
             raised |-> sleep_raises(get_backoff_delay(j, base))]
       ELSE [job |-> update_state(j, DEAD, error, None), raised |-> FALSE]

\* _process_job up to its finally clause.  An exception of the call of
\* _handle_job_failure in the try block is caught by `except Exception`,
\* which calls _handle_job_failure again with str(e); an exception of a
\* call made in an except clause leaves _process_job (raised).
process_job_under(job, o, base) ==
    IF o \in OkOutcomes
    THEN [job |-> update_state(job, COMPLETED, None, Stdout(o)), raised |-> FALSE,
          res |-> o]
    ELSE LET first == handle_failure_under(job, ErrorOf(o), base)
         IN IF ~first.raised \/ o = "timeout"
            THEN [job |-> first.job, raised |-> first.raised, res |-> o]
            ELSE LET second == handle_failure_under(first.job, ErrorOf("sleep_error"),
                                                    base)
                 IN [job |-> second.job, raised |-> second.raised,
                     res |-> "sleep_error"]

\* the workers are in their loops over a store that enqueue calls have
\* left, under a backoff_base that config set has left
BaseInit ==
    /\ cut = TRUE
    /\ backoff_base \in BaseArgs
    /\ jobs_file \in SeededStores
    /\ uuids = Len(jobs_file) - 1
    /\ enqueued = IdsOf(jobs_file)
    /\ JobsIdle
    /\ wpc = [w \in Workers |-> "loop"]
    /\ LifeOff
    /\ LocksOff
    /\ fails = Off
    /\ arg = Off
    /\ bk = Off

\* subprocess.run has ended as o: _process_job to the end of
\* _handle_job_failure, to its sleep, or to the _read_jobs of the save_job
\* in its finally clause
ExecuteUnder(w, o) ==
    /\ wpc[w] = "run"
    /\ LET r == process_job_under(wjob[w], o, backoff_base)
       IN /\ wjob' = [wjob EXCEPT ![w] = r.job]
          /\ wres' = [wres EXCEPT ![w] = r.res]
          /\ IF r.raised
             THEN /\ wpc' = [wpc EXCEPT ![w] = "crash_write"]
                  /\ wsnap' = [wsnap EXCEPT ![w] = jobs_file]
             ELSE IF r.job.state = FAILED
             THEN /\ wpc' = [wpc EXCEPT ![w] = "backoff"]
                  /\ UNCHANGED wsnap
             ELSE /\ wpc' = [wpc EXCEPT ![w] = "save_write"]
                  /\ wsnap' = [wsnap EXCEPT ![w] = jobs_file]
    /\ ret' = NoRet
    /\ UNCHANGED <<jobs_file, uuids, wclaimed, cvars, hvars>>

\* the _write_jobs of the save_job in the finally clause while the
\* exception leaves _process_job; it ends the worker process
CrashWrite(w) ==
    /\ wpc[w] = "crash_write"
    /\ jobs_file' = DictSet(wsnap[w], wjob[w])
    /\ wsnap' = [wsnap EXCEPT ![w] = <<>>]
    /\ wjob' = [wjob EXCEPT ![w] = NoJob]
    /\ wres' = [wres EXCEPT ![w] = None]
    /\ wclaimed' = [wclaimed EXCEPT ![w] = 0]
    /\ wpc' = [wpc EXCEPT ![w] = "crashed"]
    /\ ret' = NoRet
    /\ UNCHANGED <<uuids, cvars, hvars>>

BaseNext ==
    \/ \E w \in Workers : GetPending(w) /\ UNCHANGED xvars
    \/ \E w \in Workers : ScanFailed(w) /\ UNCHANGED xvars
    \/ \E w \in Workers : ClaimRead(w) /\ UNCHANGED xvars
    \/ \E w \in Workers : ClaimWrite(w) /\ UNCHANGED xvars
    \/ \E w \in Workers, o \in Outcomes : ExecuteUnder(w, o) /\ UNCHANGED xvars
    \/ \E w \in Workers : Backoff(w) /\ UNCHANGED xvars
    \/ \E w \in Workers : SaveWrite(w) /\ UNCHANGED xvars
    \/ \E w \in Workers : CrashWrite(w) /\ UNCHANGED xvars

SpecBase == BaseInit /\ [][BaseNext]_vars

\* ---- storage.py at the level of the locks ------------------------------

\* a flock that never makes the caller wait
flock_shared(f) == TRUE

\* fcntl.flock(lock_fd, LOCK_EX) on the collection's .lock file returns:
\* nobody holds the lock
flock_grants(f) == lock[f] = 0

LockInit ==
    /\ cut = TRUE
    /\ backoff_base = DefaultBackoffBase
    /\ jobs_file = <<>>
    /\ uuids = 0
    /\ enqueued = {}
    /\ JobsIdle
    /\ wpc = [w \in Workers |-> "loop"]
    /\ LifeOff
    /\ LocksIdle
    /\ fails = Off
    /\ arg = Off
    /\ bk = Off

lockframe == <<jobvars, cut, backoff_base, lifevars, fails, arg, bk>>

\* _lock_file up to the yield, entered from _read_jobs / _read_workers
\* (op "read") or from _write_jobs / _write_workers (op "write", with the
\* collection to dump)
LockAcquire(p, f, op, data) ==
    /\ lpc[p] = "idle"
    /\ flock_grants(f)
    /\ lock' = [lock EXCEPT ![f] = p]
    /\ lop' = [lop EXCEPT ![p] = [f |-> f, op |-> op, data |-> data]]
    /\ lpc' = [lpc EXCEPT ![p] = IF op = "read" THEN "load" ELSE "open"]
    /\ UNCHANGED <<disk, lgot, lockframe>>

\* open(file, 'w') inside the lock: the file is empty
WriteOpen(p) ==
    /\ lpc[p] = "open"
    /\ disk' = [disk EXCEPT ![lop[p].f] = Truncated]
    /\ lpc' = [lpc EXCEPT ![p] = "dump"]
    /\ UNCHANGED <<lock, lop, lgot, lockframe>>

\* json.dump and the close of the file: the file holds the collection
WriteDump(p) ==
    /\ lpc[p] = "dump"
    /\ disk' = [disk EXCEPT ![lop[p].f] = lop[p].data]
    /\ lpc' = [lpc EXCEPT ![p] = "unlock"]
    /\ UNCHANGED <<lock, lop, lgot, lockframe>>

\* open(file, 'r') and json.load inside the lock
ReadLoad(p) ==
    /\ lpc[p] = "load"
    /\ lgot' = [lgot EXCEPT ![p] = disk[lop[p].f]]
    /\ lpc' = [lpc EXCEPT ![p] = "unlock"]
    /\ UNCHANGED <<lock, disk, lop, lockframe>>

\* the finally of _lock_file: LOCK_UN and the close of the lock file
LockRelease(p) ==
    /\ lpc[p] = "unlock"
    /\ lock' = [lock EXCEPT ![lop[p].f] = 0]
    /\ lop' = [lop EXCEPT ![p] = NoOp]
    /\ lpc' = [lpc EXCEPT ![p] = "idle"]
    /\ UNCHANGED <<disk, lgot, lockframe>>

LockNext ==
    \/ \E p \in Procs, f \in Collections : LockAcquire(p, f, "read", Created)
    \/ \E p \in Procs, f \in Collections, data \in Written :
          LockAcquire(p, f, "write", data)
    \/ \E p \in Procs : WriteOpen(p)
    \/ \E p \in Procs : WriteDump(p)
    \/ \E p \in Procs : ReadLoad(p)
    \/ \E p \in Procs : LockRelease(p)

SpecLock == LockInit /\ [][LockNext]_vars

\* ---- what the checks read --------------------------------------------

\* the stored record of id (NoJob when jobs.json holds none), before and
\* after a step
Stored(id) == get_job(jobs_file, id)
StoredNext(id) == get_job(jobs_file', id)
IsStored(id) == HasId(jobs_file, id)

\* the step is the _write_jobs that completes a save_job of a job with this id
SaveCompletes(id) ==
    \/ \E w \in Workers : /\ wpc[w] \in {"claim_write", "save_write"}
                          /\ wpc'[w] # wpc[w]
                          /\ wjob[w].id = id
    \/ \E c \in Clients : /\ cpc[c] \in {"enq_write", "retry_write"}
                          /\ cpc'[c] # cpc[c]
                          /\ cjob[c].id = id

\* the step completes retry_job(id) with True / enqueue of a job with this id
RetryCompletes(id) ==
    \E c \in Clients : cpc[c] = "retry_write" /\ cpc'[c] # cpc[c] /\ cjob[c].id = id
EnqueueCompletes(id) ==
    \E c \in Clients : cpc[c] = "enq_write" /\ cpc'[c] # cpc[c] /\ cjob[c].id = id

\* the step is a step of a worker / a step of a retry_job call
WorkerStep == \E w \in Workers : wpc'[w] # wpc[w]
RetryStep ==
    \/ ret' # NoRet
    \/ \E c \in Clients : /\ cpc'[c] # cpc[c]
                          /\ {cpc[c], cpc'[c]} \cap {"retry_read", "retry_write"} # {}

\* worker w has taken job id and has not yet persisted its outcome
Holds(w, id) == wpc[w] \in {"run", "backoff", "save_write"} /\ wjob[w].id = id
Executing(w, id) == wpc[w] = "run" /\ wjob[w].id = id

\* the step is worker w's _write_jobs of the outcome of its job
Persists(w) == wpc[w] = "save_write" /\ wpc'[w] = "loop"

\* ---- C1 --------------------------------------------------------------
\* C1: at most one worker holds a job as claimed, and no job is executed by
\* two workers at the same time.
C1_ExclusiveClaim ==
    \A id \in JobIds : \A w1, w2 \in Workers :
        (Holds(w1, id) /\ Holds(w2, id)) => w1 = w2

\* ---- C2 --------------------------------------------------------------
\* C2: the record a returned save_job stored is what get_job returns until a
\* later save_job (or delete_job) for the same id completes: a step that
\* completes no save of id leaves get_job(id) as it was.
C2_SavedStaysVisible ==
    [][\A id \in JobIds :
          (IsStored(id) /\ ~SaveCompletes(id)) => StoredNext(id) = Stored(id)]_vars

\* ---- C3 --------------------------------------------------------------
\* C3: once enqueue has returned a job with id i, a record with id i is in
\* the store in every later state (nothing in the program calls delete_job).
C3_NoRecordDisappears == \A id \in enqueued : IsStored(id)

\* ---- C4 --------------------------------------------------------------
\* C4: once the stored record of a job is completed, no worker step and no
\* retry_job step changes any field of that stored record.
C4_CompletedTerminal ==
    [][\A id \in JobIds :
          (IsStored(id) /\ Stored(id).state = COMPLETED /\ (WorkerStep \/ RetryStep))
             => StoredNext(id) = Stored(id)]_vars

\* ---- C5 --------------------------------------------------------------
\* C5: a stored dead job stays dead until retry_job(id) returns True: no
\* worker step moves a stored dead job to another state.
C5_DeadUntilRetry ==
    [][\A id \in JobIds :
          (IsStored(id) /\ Stored(id).state = DEAD /\ WorkerStep)
             => (HasId(jobs_file', id) /\ StoredNext(id).state = DEAD)]_vars

C7_RetryTwice ==
    [][/\ \A id \in JobIds :
             RetryCompletes(id)
                => (StoredNext(id).state = PENDING /\ StoredNext(id).attempts = 0)
       /\ \A c \in Clients :
             (lastRetry # None /\ RetryGet(c, lastRetry))
                => (ret' = Returned(lastRetry, FALSE) /\ jobs_file' = jobs_file)]_vars

\* ---- C8 --------------------------------------------------------------
\* C8: retry_job(id) returns False and leaves the jobs collection unchanged
\* whenever id is not stored or its stored state is not dead.
C8_RetryRefused ==
    [][\A c \in Clients, id \in JobIds :
          (RetryGet(c, id) /\ ~(IsStored(id) /\ Stored(id).state = DEAD))
             => (ret' = Returned(id, FALSE) /\ jobs_file' = jobs_file)]_vars

\* retry_job has just returned False for a stored job that is completed
C8_Witness ==
    /\ ret # NoRet
    /\ ret.value = FALSE
    /\ IsStored(ret.id)
    /\ Stored(ret.id).state = COMPLETED

\* ---- C9 --------------------------------------------------------------
\* C9: under any interleaving of workers the stored attempts of a job never
\* decreases from one state to the next: no worker step lowers it (the one
\* step allowed to lower it is a successful retry_job, a client's step).
C9_AttemptsMonotone ==
    [][\A id \in JobIds :
          (IsStored(id) /\ HasId(jobs_file', id) /\ WorkerStep)
             => StoredNext(id).attempts >= Stored(id).attempts]_vars

\* ---- C10 -------------------------------------------------------------
\* C10: when the command exited with status 0, the record the worker
\* persists is completed with the attempts the job had when it was taken.
C10_SuccessKeepsAttempts ==
    [][\A w \in Workers :
          (Persists(w) /\ wres[w] \in OkOutcomes)
             => LET r == StoredNext(wjob[w].id)
                IN r.state = COMPLETED /\ r.attempts = wclaimed[w]]_vars

\* a job stored completed that had failed once before: attempts is still 1
C10_Witness ==
    \E id \in JobIds :
        /\ IsStored(id)
        /\ Stored(id).state = COMPLETED
        /\ Stored(id).attempts = 1
        /\ Stored(id).output # None

\* ---- the roster and the shutdown of workers (SpecLife) -------------------

\* what list_workers returns: the ids in workers.json
Roster == {workers_file[k].id : k \in 1..Len(workers_file)}
\* the worker is inside the loop of start(): registered, finally not reached
InLoop(w) == wpc[w] \in {"loop", "scan_failed", "claim_read", "claim_write",
                          "run", "backoff", "save_write"}
\* the worker is in, or past, the finally clause of start()
Exiting(w) == wpc[w] \in {"unreg_read", "unreg_write", "stopped"}

\* C11: the roster lists exactly the live workers: a worker whose start()
\* has returned is not in list_workers, and a worker inside its loop is,
\* however the starts and the stops of several workers interleave.
C11_RosterIsLive ==
    \A w \in Workers :
        /\ wpc[w] = "stopped" => w \notin Roster
        /\ InLoop(w) => w \in Roster

\* C12: once _handle_shutdown has set a worker's running to False, that
\* worker takes no new job: no step of it picks a pending job to mark it
\* processing while its running flag is False.
C12_NoClaimAfterSignal ==
    [][\A w \in Workers :
          ~running[w] => ~(wpc[w] = "loop" /\ wpc'[w] = "claim_read")]_vars

InRegion(p, f) == lpc[p] # "idle" /\ lop[p].f = f

\* C14: at most one process is inside a lock region of a collection at a
\* time, for jobs and for workers alike, and what a read returned is the
\* collection the file was created with or one a completed write left:
\* never the file of a write under way.
C14_LockRegionsExclusive ==
    /\ \A f \in Collections : Cardinality({p \in Procs : InRegion(p, f)}) <= 1
    /\ \A p \in Procs : lgot[p] \in {Created} \cup Written

\* a process is in the middle of a write of a collection that another
\* process has read a written value of
C14_Witness ==
    \E p, q \in Procs, f \in Collections :
        /\ p # q
        /\ lpc[p] = "dump" /\ lop[p].f = f /\ disk[f] = Truncated
        /\ lpc[q] = "idle" /\ lgot[q] \in Written

\* ---- enqueue (SpecEnqueue) ----------------------------------------------

\* the ids uuid4 generates
Generated == {UuidPool[n] : n \in 1..Len(UuidPool)}
\* client c's step is the return of enqueue
EnqueueReturns(c) == cpc[c] = "enq_write" /\ cpc'[c] = "idle"
\* the record enqueue returns is the one it has just stored, pending, with
\* attempts 0 and the max_retries supplied or else the configured default
EnqueuedAsAsked(c) ==
    /\ StoredNext(cjob[c].id) = cjob[c]
    /\ cjob[c].state = PENDING
    /\ cjob[c].attempts = 0
    /\ cjob[c].command = arg[c].command
    /\ cjob[c].max_retries = IF arg[c].mr = <<>> THEN DefaultMaxRetries ELSE arg[c].mr[1]

\* C15 as stated: enqueue returns and persists a pending record with
\* attempts 0, the supplied or default max_retries, and the caller's id
\* whenever the caller supplied one, a generated id otherwise.
C15_EnqueueRecordAnyId ==
    [][\A c \in Clients :
          EnqueueReturns(c) =>
             /\ EnqueuedAsAsked(c)
             /\ arg[c].id # None => cjob[c].id = arg[c].id
             /\ arg[c].id = None => cjob[c].id \in Generated]_vars

\* C15, amended: enqueue returns and persists a pending record with
\* attempts 0, the supplied or default max_retries, and the caller's id
\* when the caller supplied a non-empty one; with no id or the empty id the
\* record gets a generated id.
C15_EnqueueRecord ==
    [][\A c \in Clients :
          EnqueueReturns(c) =>
             /\ EnqueuedAsAsked(c)
             /\ ~Falsy(arg[c].id) => cjob[c].id = arg[c].id
             /\ Falsy(arg[c].id) => cjob[c].id \in Generated]_vars

\* an enqueue with the empty id and max_retries 0 has returned, and the
\* record it stored has a generated id
C15_Witness ==
    \E c \in Clients :
        /\ cpc[c] = "idle"
        /\ arg[c] # NoArg
        /\ arg[c].id = ""
        /\ arg[c].mr = <<0>>
        /\ \E id \in Generated : IsStored(id) /\ Stored(id).max_retries = 0

\* ---- get_job_counts (Spec) ----------------------------------------------

\* C16: in every reachable state get_job_counts returns a mapping whose
\* keys are exactly the five states, whose values sum to the number of
\* records in jobs.json, and whose value for a state is the number of
\* stored jobs in that state.
C16_CountsSumToTotal ==
    LET counts == get_job_counts(jobs_file, Len(jobs_file))
    IN /\ DOMAIN counts = {PENDING, PROCESSING, COMPLETED, FAILED, DEAD}
       /\ counts[PENDING] + counts[PROCESSING] + counts[COMPLETED]
             + counts[FAILED] + counts[DEAD] = Len(jobs_file)
       /\ \A st \in JobState :
             counts[st] = Cardinality({k \in 1..Len(jobs_file) : jobs_file[k].state = st})

\* jobs.json holds a dead job and a job in another state
C16_Witness ==
    /\ Len(jobs_file) = 2
    /\ \E k \in 1..2 : jobs_file[k].state = DEAD
    /\ \E k \in 1..2 : jobs_file[k].state \in {PENDING, PROCESSING, COMPLETED}

\* ---- the backoff delay (SpecBackoff) --------------------------------------

\* base multiplied by itself n times
RECURSIVE RepeatedProduct(_, _)
RepeatedProduct(base, n) == IF n = 0 THEN 1 ELSE base * RepeatedProduct(base, n - 1)

\* C17: while a job is in its backoff, the delay the worker sleeps is
\* backoff_base to the power of the attempts the job has after the
\* increment; with base 2 that is 2, 4, 8 for attempts 1, 2, 3.
C17_BackoffIsPower ==
    bk.job.state = FAILED =>
        /\ bk.delay = RepeatedProduct(bk.base, bk.job.attempts)
        /\ bk.base = 2 /\ bk.job.attempts = 1 => bk.delay = 2
        /\ bk.base = 2 /\ bk.job.attempts = 2 => bk.delay = 4
        /\ bk.base = 2 /\ bk.job.attempts = 3 => bk.delay = 8

\* a job that has failed three times is in its backoff of 8 under base 2
C17_Witness ==
    /\ bk.job.state = FAILED
    /\ bk.base = 2
    /\ bk.job.attempts = 3
    /\ bk.delay = 8

\* ---- the backoff sleep (Spec) ---------------------------------------------

\* C18: from a retryable failure of a job to the end of its backoff sleep
\* the worker that ran it takes and runs no other job, and the stored
\* record of the job does not become pending (unless an enqueue or a
\* retry_job of that id completes).
C18_BackoffBlocks ==
    [][\A w \in Workers :
          wpc[w] = "backoff" =>
             /\ wpc'[w] \in {"backoff", "save_write"}
             /\ wjob'[w].id = wjob[w].id
             /\ ( /\ wpc'[w] = "backoff"
                  /\ IsStored(wjob[w].id)
                  /\ Stored(wjob[w].id).state # PENDING
                  /\ ~EnqueueCompletes(wjob[w].id)
                  /\ ~RetryCompletes(wjob[w].id) )
                => StoredNext(wjob[w].id).state # PENDING]_vars

\* ---- attempts against executions (SpecCount) ------------------------------

\* no worker is between taking the job and the save of its outcome
AtRest(id) == \A w \in Workers : wjob[w] = NoJob \/ wjob[w].id # id

\* C19: the stored attempts of a job is the number of its executions that
\* ended in failure since it was enqueued, with any number of workers; so
\* a job stored as dead has failed exactly max_retries times.
C19_AttemptsCountFailures ==
    \A id \in JobIds :
        (IsStored(id) /\ AtRest(id)) =>
            /\ Stored(id).attempts = fails[id]
            /\ Stored(id).state = DEAD => fails[id] = Stored(id).max_retries

\* ---- every job finishes (SpecFair) ----------------------------------------

\* C20: with workers that keep running and are scheduled fairly, and
\* commands that terminate, every record stored as pending is later
\* stored as completed or as dead.
C20_EveryJobFinishes ==
    \A id \in JobIds :
        (IsStored(id) /\ Stored(id).state = PENDING)
            ~> (IsStored(id) /\ Stored(id).state \in {COMPLETED, DEAD})

\* ---- the state failed in jobs.json (SpecBase) -----------------------------

\* C21: no stored record ever has state failed; so the scan of the failed
\* jobs in _get_next_job never returns a job, and every job a worker runs
\* is one it has stored as processing.
C21_NoStoredFailed ==
    /\ \A k \in 1..Len(jobs_file) : jobs_file[k].state # FAILED
    /\ \A w \in Workers :
          /\ wpc[w] = "scan_failed" =>
                FirstRetryable(get_jobs_by_state(jobs_file, FAILED)) = NoJob
          /\ wpc[w] = "run" => wjob[w].state = PROCESSING

\* ---- attempts against max_retries (Spec) ----------------------------------

\* C22: every stored record with max_retries >= 1 has attempts <=
\* max_retries; when it is pending, attempts < max_retries; when it is
\* dead, attempts = max_retries; under every interleaving of workers,
\* enqueues and retries.
C22_AttemptsWithinMaxRetries ==
    \A k \in 1..Len(jobs_file) :
        jobs_file[k].max_retries >= 1 =>
            /\ jobs_file[k].attempts <= jobs_file[k].max_retries
            /\ jobs_file[k].state = PENDING =>
                  jobs_file[k].attempts < jobs_file[k].max_retries
            /\ jobs_file[k].state = DEAD =>
                  jobs_file[k].attempts = jobs_file[k].max_retries

\* jobs.json holds a dead job and a job that is pending again after a
\* failure
C22_Witness ==
    /\ \E k \in 1..Len(jobs_file) :
          jobs_file[k].state = DEAD /\ jobs_file[k].attempts >= 1
    /\ \E k \in 1..Len(jobs_file) :
          jobs_file[k].state = PENDING /\ jobs_file[k].attempts >= 1
====
